---- MODULE Spec2Model ----
(***************************************************************************)
(* A model of betfair.py: the Betfair session object, its login handshake, *)
(* the keep-alive probe and the daemon thread login starts to repeat it.   *)
(* One foreground thread of control calls the public methods; every        *)
(* successful login adds one background thread running                     *)
(* __keep_alive_thread.  Statements that touch self.login_status or        *)
(* self.session_token are separate steps, so that the threads interleave   *)
(* exactly where the interpreter may switch between them.                  *)
(***************************************************************************)
EXTENDS Integers, Sequences, FiniteSets, TLC

\* Bounds of the model.
MaxLogins == 2          \* login calls made on one session object
MaxProbes == 2          \* the probe counter of a thread saturates here

\* The session objects main() constructs, and the one the calls are made on.
Sessions == {"session", "session2"}
Live == {"session"}
Threads == 1 .. MaxLogins

\* A field a JSON body does not carry (indexing it raises KeyError).
Absent == "<absent>"

(***************************************************************************)
(* Exceptions: the class and the args it was raised with.                  *)
(***************************************************************************)
NoError == [type |-> "none", args |-> <<>>]
BetfairException(a, b) == [type |-> "BetfairException", args |-> <<a, b>>]
KeyError(k) == [type |-> "KeyError", args |-> <<k>>]
ValueError == [type |-> "ValueError", args |-> <<>>]
ConnectionError == [type |-> "ConnectionError", args |-> <<>>]

(***************************************************************************)
(* What requests.post gives back: kind "http" is a response with a status  *)
(* code and a body (json says whether resp.json() can parse it), kind      *)
(* "neterr" is requests raising because the request could not complete.    *)
(***************************************************************************)
Response(kind, code, json, ls, tok, st, er) ==
    [kind |-> kind, code |-> code, json |-> json, loginStatus |-> ls,
     sessionToken |-> tok, status |-> st, error |-> er]
NoResp == Response("none", 0, FALSE, Absent, Absent, Absent, Absent)
NetErr == Response("neterr", 0, FALSE, Absent, Absent, Absent, Absent)
NotJson(code) == Response("http", code, FALSE, Absent, Absent, Absent, Absent)
LoginResp(code, ls, tok) == Response("http", code, TRUE, ls, tok, Absent, Absent)
KaResp(code, st, er) == Response("http", code, TRUE, Absent, Absent, st, er)

\* Responses of the identity endpoint (certlogin).
LoginResponses ==
    { LoginResp(200, "SUCCESS", "abc123"),
      LoginResp(200, "SUCCESS", "xyz789"),
      LoginResp(200, "INVALID_USERNAME_OR_PASSWORD", Absent),
      LoginResp(200, "CERT_AUTH_REQUIRED", Absent),
      LoginResp(200, "CERT_AUTH_REQUIRED", ""),
      LoginResp(500, "SUCCESS", "abc123"),
      NotJson(503),
      NotJson(200),
      NetErr }

\* Responses of the keepAlive endpoint.
KaResponses ==
    { KaResp(200, "SUCCESS", ""),
      KaResp(200, "FAIL", ""),
      KaResp(200, "SUCCESS", "INPUT_ERROR"),
      KaResp(500, "SUCCESS", ""),
      NetErr }

\* Responses of the JSON-RPC endpoints, as far as __call_aping looks at them.
ApingResponses == { KaResp(200, Absent, Absent), NotJson(200), NetErr }

(***************************************************************************)
(* base64.b64decode(x).decode("ascii") on the credentials the callers pass *)
(***************************************************************************)
Usernames == {"dXNlcg=="}
Passwords == {"cGFzcw==", "c2VjcmV0"}
b64decode(x) ==
    CASE x = "dXNlcg==" -> "user"
      [] x = "cGFzcw==" -> "pass"
      [] x = "c2VjcmV0" -> "secret"
payload(username, password) ==
    <<"username=", b64decode(username), "&password=", b64decode(password)>>
NoPayload == <<>>

VARIABLES
    login_status,    \* self.login_status, per session
    session_token,   \* self.session_token, per session
    alive_thread,    \* self.__alive_thread: 0 is None, i the i-th thread started
    logins,          \* login calls made so far, per session
    discarded,       \* the caller has dropped the session object
    fg_pc,           \* the foreground thread: the line it is at, or "idle"
    fg_self,         \* the session the current (or last) call is on
    fg_op,           \* the method called last
    fg_payload,      \* login's form body
    fg_hdr,          \* the X-Authentication header of the request being built
    fg_resp,         \* the response the call got
    fg_err,          \* the exception the last call raised, or NoError
    ka_pc,           \* per session and thread: where the keep-alive thread is
    ka_hdr,          \* its keep_alive's X-Authentication header
    ka_resp,         \* the response to its last probe
    ka_err,          \* the exception that ended it, or NoError
    ka_probes        \* probes it has issued (saturating at MaxProbes)

vars == <<login_status, session_token, alive_thread, logins, discarded,
          fg_pc, fg_self, fg_op, fg_payload, fg_hdr, fg_resp, fg_err,
          ka_pc, ka_hdr, ka_resp, ka_err, ka_probes>>

session_vars == <<login_status, session_token, alive_thread>>
fg_vars == <<fg_pc, fg_self, fg_op, fg_payload, fg_hdr, fg_resp, fg_err>>
ka_vars == <<ka_pc, ka_hdr, ka_resp, ka_err, ka_probes>>

NoHdr == "<no headers>"

\* Betfair.__init__ for every session object.
Init ==
    /\ login_status = [m \in Sessions |-> ""]
    /\ session_token = [m \in Sessions |-> ""]
    /\ alive_thread = [m \in Sessions |-> 0]
    /\ logins = [m \in Sessions |-> 0]
    /\ discarded = [m \in Sessions |-> FALSE]
    /\ fg_pc = "idle"
    /\ fg_self = "session"
    /\ fg_op = "none"
    /\ fg_payload = NoPayload
    /\ fg_hdr = NoHdr
    /\ fg_resp = NoResp
    /\ fg_err = NoError
    /\ ka_pc = [m \in Sessions |-> [i \in Threads |-> "none"]]
    /\ ka_hdr = [m \in Sessions |-> [i \in Threads |-> NoHdr]]
    /\ ka_resp = [m \in Sessions |-> [i \in Threads |-> NoResp]]
    /\ ka_err = [m \in Sessions |-> [i \in Threads |-> NoError]]
    /\ ka_probes = [m \in Sessions |-> [i \in Threads |-> 0]]

\* The threads login has started on m, and those of them still running.
Started(m) == {i \in Threads : ka_pc[m][i] # "none"}
Running(m) == {i \in Threads : ka_pc[m][i] \notin {"none", "dead"}}

\* The foreground call returns (e = NoError) or raises e.
fg_return(e) ==
    /\ fg_pc' = "idle"
    /\ fg_err' = e
    /\ fg_payload' = NoPayload
    /\ fg_hdr' = NoHdr

(***************************************************************************)
(* Betfair.login                                                           *)
(***************************************************************************)
\* login_outcome without the test of line 58.
login_outcome_no_invalid(r) ==
    IF r.kind = "neterr" THEN ConnectionError
    ELSE IF r.code = 200
         THEN IF ~r.json THEN ValueError
              ELSE IF r.loginStatus = Absent THEN KeyError("loginStatus")
              ELSE NoError
         ELSE BetfairException("login", "Unknown error")

\* login_outcome trusting a body that says SUCCESS whatever the status code.
login_outcome_body_first(r) ==
    IF r.kind = "neterr" THEN ConnectionError
    ELSE IF r.json /\ r.loginStatus = "SUCCESS" THEN NoError
    ELSE IF r.code = 200
         THEN IF ~r.json THEN ValueError
              ELSE IF r.loginStatus = Absent THEN KeyError("loginStatus")
              ELSE IF r.loginStatus = "INVALID_USERNAME_OR_PASSWORD"
                   THEN BetfairException("login:loginStatus",
                                         "INVALID_USERNAME_OR_PASSWORD")
                   ELSE NoError
         ELSE BetfairException("login", "Unknown error")

\* Lines 54-60 and 63-65: the exception the response makes login raise
\* before it stores anything, or NoError when it goes on to line 61.
login_outcome(r) ==
    IF r.kind = "neterr" THEN ConnectionError
    ELSE IF r.code = 200
         THEN IF ~r.json THEN ValueError
              ELSE IF r.loginStatus = Absent THEN KeyError("loginStatus")
              ELSE IF r.loginStatus = "INVALID_USERNAME_OR_PASSWORD"
                   THEN BetfairException("login:loginStatus",
                                         "INVALID_USERNAME_OR_PASSWORD")
                   ELSE NoError
         ELSE BetfairException("login", "Unknown error")

\* login refusing to run once a status has been stored (a guard against
\* logging in twice).
login_once_status_set(m, username, password) ==
    /\ fg_pc = "idle"
    /\ ~discarded[m]
    /\ logins[m] < MaxLogins
    /\ login_status[m] = ""
    /\ logins' = [logins EXCEPT ![m] = @ + 1]
    /\ fg_pc' = "l54"
    /\ fg_self' = m
    /\ fg_op' = "login"
    /\ fg_payload' = payload(username, password)
    /\ fg_hdr' = NoHdr
    /\ fg_resp' = NoResp
    /\ fg_err' = NoError
    /\ UNCHANGED <<session_vars, discarded, ka_vars>>

\* Lines 45-52: the call, up to the form body.
login(m, username, password) ==
    /\ fg_pc = "idle"
    /\ ~discarded[m]
    /\ logins[m] < MaxLogins
    /\ logins' = [logins EXCEPT ![m] = @ + 1]
    /\ fg_pc' = "l54"
    /\ fg_self' = m
    /\ fg_op' = "login"
    /\ fg_payload' = payload(username, password)
    /\ fg_hdr' = NoHdr
    /\ fg_resp' = NoResp
    /\ fg_err' = NoError
    /\ UNCHANGED <<session_vars, discarded, ka_vars>>

\* login_post posting again when the request could not complete.
login_post_retries ==
    /\ fg_pc = "l54"
    /\ \E r \in LoginResponses :
         /\ fg_resp' = r
         /\ IF r.kind = "neterr"
            THEN UNCHANGED <<fg_pc, fg_payload, fg_hdr, fg_err>>
            ELSE IF login_outcome(r) = NoError
            THEN /\ fg_pc' = "l61"
                 /\ fg_payload' = NoPayload
                 /\ UNCHANGED <<fg_hdr, fg_err>>
            ELSE fg_return(login_outcome(r))
    /\ UNCHANGED <<session_vars, logins, discarded, fg_self, fg_op, ka_vars>>

\* Lines 54-60, 63-65: the POST, and what login makes of the response.
login_post ==
    /\ fg_pc = "l54"
    /\ \E r \in LoginResponses :
         /\ fg_resp' = r
         /\ IF login_outcome(r) = NoError
            THEN /\ fg_pc' = "l61"
                 /\ fg_payload' = NoPayload
                 /\ UNCHANGED <<fg_hdr, fg_err>>
            ELSE fg_return(login_outcome(r))
    /\ UNCHANGED <<session_vars, logins, discarded, fg_self, fg_op, ka_vars>>

\* Line 61.
login_set_status ==
    /\ fg_pc = "l61"
    /\ login_status' = [login_status EXCEPT ![fg_self] = fg_resp.loginStatus]
    /\ fg_pc' = "l62"
    /\ UNCHANGED <<session_token, alive_thread, logins, discarded, fg_self,
                   fg_op, fg_payload, fg_hdr, fg_resp, fg_err, ka_vars>>

\* login_set_token storing the wrong field of the body.
login_set_token_wrong_field ==
    /\ fg_pc = "l62"
    /\ IF fg_resp.sessionToken = Absent
       THEN /\ fg_return(KeyError("sessionToken"))
            /\ UNCHANGED session_token
       ELSE /\ session_token' =
                  [session_token EXCEPT ![fg_self] = fg_resp.loginStatus]
            /\ fg_pc' = "l71"
            /\ UNCHANGED <<fg_payload, fg_hdr, fg_err>>
    /\ UNCHANGED <<login_status, alive_thread, logins, discarded, fg_self,
                   fg_op, fg_resp, ka_vars>>

\* login_set_token with session_token a class attribute, shared by every
\* Betfair object the way betting_url is.
login_set_token_class_attr ==
    /\ fg_pc = "l62"
    /\ IF fg_resp.sessionToken = Absent
       THEN /\ fg_return(KeyError("sessionToken"))
            /\ UNCHANGED session_token
       ELSE /\ session_token' = [m \in Sessions |-> fg_resp.sessionToken]
            /\ fg_pc' = "l71"
            /\ UNCHANGED <<fg_payload, fg_hdr, fg_err>>
    /\ UNCHANGED <<login_status, alive_thread, logins, discarded, fg_self,
                   fg_op, fg_resp, ka_vars>>

\* Line 62; a body without the field raises KeyError.
login_set_token ==
    /\ fg_pc = "l62"
    /\ IF fg_resp.sessionToken = Absent
       THEN /\ fg_return(KeyError("sessionToken"))
            /\ UNCHANGED session_token
       ELSE /\ session_token' =
                  [session_token EXCEPT ![fg_self] = fg_resp.sessionToken]
            /\ fg_pc' = "l71"
            /\ UNCHANGED <<fg_payload, fg_hdr, fg_err>>
    /\ UNCHANGED <<login_status, alive_thread, logins, discarded, fg_self,
                   fg_op, fg_resp, ka_vars>>

\* Lines 67-72: a new daemon thread, started whatever self.__alive_thread
\* held; the handle of the previous thread is overwritten.
login_start_thread ==
    /\ fg_pc = "l71"
    /\ LET i == Cardinality(Started(fg_self)) + 1
       IN  /\ alive_thread' = [alive_thread EXCEPT ![fg_self] = i]
           /\ ka_pc' = [ka_pc EXCEPT ![fg_self][i] = "l77"]
    /\ fg_return(NoError)
    /\ UNCHANGED <<login_status, session_token, logins, discarded, fg_self,
                   fg_op, fg_resp, ka_hdr, ka_resp, ka_err, ka_probes>>

(***************************************************************************)
(* Betfair.keep_alive                                                      *)
(***************************************************************************)
\* keep_alive_outcome without the test of the error field (lines 93-94).
keep_alive_outcome_no_error_field(r) ==
    IF r.kind = "neterr" THEN ConnectionError
    ELSE IF r.code = 200
         THEN IF ~r.json THEN ValueError
              ELSE IF r.status = Absent THEN KeyError("status")
              ELSE IF r.status = "FAIL"
                   THEN BetfairException("keepAlive:status", "FAIL")
                   ELSE NoError
         ELSE BetfairException("keepAlive", "Unknown error")

\* Lines 87-96: the exception the response makes keep_alive raise, or
\* NoError when it returns.
keep_alive_outcome(r) ==
    IF r.kind = "neterr" THEN ConnectionError
    ELSE IF r.code = 200
         THEN IF ~r.json THEN ValueError
              ELSE IF r.status = Absent THEN KeyError("status")
              ELSE IF r.status = "FAIL"
                   THEN BetfairException("keepAlive:status", "FAIL")
              ELSE IF r.error = Absent THEN KeyError("error")
              ELSE IF r.error # ""
                   THEN BetfairException("keepAlive:error", r.error)
                   ELSE NoError
         ELSE BetfairException("keepAlive", "Unknown error")

\* Line 86, called from the foreground: the headers read self.session_token.
keep_alive(m) ==
    /\ fg_pc = "idle"
    /\ ~discarded[m]
    /\ fg_pc' = "l87"
    /\ fg_self' = m
    /\ fg_op' = "keep_alive"
    /\ fg_hdr' = session_token[m]
    /\ fg_resp' = NoResp
    /\ fg_err' = NoError
    /\ UNCHANGED <<session_vars, logins, discarded, fg_payload, ka_vars>>

\* Lines 87-96, called from the foreground.
keep_alive_post ==
    /\ fg_pc = "l87"
    /\ \E r \in KaResponses :
         /\ fg_resp' = r
         /\ fg_return(keep_alive_outcome(r))
    /\ UNCHANGED <<session_vars, logins, discarded, fg_self, fg_op, ka_vars>>

(***************************************************************************)
(* Betfair.__keep_alive_thread, thread i of session m                      *)
(***************************************************************************)
\* Lines 76-77 and 86: the loop calls keep_alive, which builds its headers.
ka_headers(m, i) ==
    /\ ka_pc[m][i] = "l77"
    /\ ka_pc' = [ka_pc EXCEPT ![m][i] = "l87"]
    /\ ka_hdr' = [ka_hdr EXCEPT ![m][i] = session_token[m]]
    /\ ka_resp' = [ka_resp EXCEPT ![m][i] = NoResp]
    /\ UNCHANGED <<session_vars, logins, discarded, fg_vars, ka_err, ka_probes>>

\* ka_post with keep_alive storing the status of a successful probe, the way
\* login stores loginStatus.
ka_post_stores_status(m, i) ==
    /\ ka_pc[m][i] = "l87"
    /\ \E r \in KaResponses :
         /\ ka_resp' = [ka_resp EXCEPT ![m][i] = r]
         /\ ka_err' = [ka_err EXCEPT ![m][i] = keep_alive_outcome(r)]
         /\ ka_pc' = [ka_pc EXCEPT ![m][i] =
                         IF keep_alive_outcome(r) = NoError THEN "l79" ELSE "dead"]
         /\ login_status' = IF keep_alive_outcome(r) = NoError
                             THEN [login_status EXCEPT ![m] = r.status]
                             ELSE login_status
    /\ ka_hdr' = [ka_hdr EXCEPT ![m][i] = NoHdr]
    /\ ka_probes' = [ka_probes EXCEPT ![m][i] = IF @ < MaxProbes THEN @ + 1 ELSE @]
    /\ UNCHANGED <<session_token, alive_thread, logins, discarded, fg_vars>>

\* ka_post with the loop going straight back to keep_alive, the sleep of
\* line 79 left out.
ka_post_no_sleep(m, i) ==
    /\ ka_pc[m][i] = "l87"
    /\ \E r \in KaResponses :
         /\ ka_resp' = [ka_resp EXCEPT ![m][i] = r]
         /\ ka_err' = [ka_err EXCEPT ![m][i] = keep_alive_outcome(r)]
         /\ ka_pc' = [ka_pc EXCEPT ![m][i] =
                         IF keep_alive_outcome(r) = NoError THEN "l77" ELSE "dead"]
    /\ ka_hdr' = [ka_hdr EXCEPT ![m][i] = NoHdr]
    /\ ka_probes' = [ka_probes EXCEPT ![m][i] = IF @ < MaxProbes THEN @ + 1 ELSE @]
    /\ UNCHANGED <<session_vars, logins, discarded, fg_vars>>

\* Lines 87-96 and 78-79: the probe.  keep_alive returning, the loop goes to
\* sleep; keep_alive raising, nothing in the loop catches it and the thread
\* ends with the exception.
ka_post(m, i) ==
    /\ ka_pc[m][i] = "l87"
    /\ \E r \in KaResponses :
         /\ ka_resp' = [ka_resp EXCEPT ![m][i] = r]
         /\ ka_err' = [ka_err EXCEPT ![m][i] = keep_alive_outcome(r)]
         /\ ka_pc' = [ka_pc EXCEPT ![m][i] =
                         IF keep_alive_outcome(r) = NoError THEN "l79" ELSE "dead"]
    /\ ka_hdr' = [ka_hdr EXCEPT ![m][i] = NoHdr]
    /\ ka_probes' = [ka_probes EXCEPT ![m][i] = IF @ < MaxProbes THEN @ + 1 ELSE @]
    /\ UNCHANGED <<session_vars, logins, discarded, fg_vars>>

\* Line 79: time.sleep(self.alive_refresh_sec) returns.
ka_sleep(m, i) ==
    /\ ka_pc[m][i] = "l79"
    /\ ka_pc' = [ka_pc EXCEPT ![m][i] = "l77"]
    /\ UNCHANGED <<session_vars, logins, discarded, fg_vars, ka_hdr, ka_resp,
                   ka_err, ka_probes>>

ka_step(m, i) == ka_headers(m, i) \/ ka_post(m, i) \/ ka_sleep(m, i)

(***************************************************************************)
(* Betfair.__call_aping, as every get_* method calls it                    *)
(***************************************************************************)
\* Line 40: the headers read self.session_token.
call_aping(m) ==
    /\ fg_pc = "idle"
    /\ ~discarded[m]
    /\ fg_pc' = "l43"
    /\ fg_self' = m
    /\ fg_op' = "call_aping"
    /\ fg_hdr' = session_token[m]
    /\ fg_resp' = NoResp
    /\ fg_err' = NoError
    /\ UNCHANGED <<session_vars, logins, discarded, fg_payload, ka_vars>>

\* Line 43: the POST and the parse of its body.
call_aping_outcome(r) ==
    IF r.kind = "neterr" THEN ConnectionError
    ELSE IF ~r.json THEN ValueError ELSE NoError

\* call_aping_post forgetting the token when the call fails.
call_aping_post_drops_token ==
    /\ fg_pc = "l43"
    /\ \E r \in ApingResponses :
         /\ fg_resp' = r
         /\ fg_return(call_aping_outcome(r))
         /\ session_token' = IF call_aping_outcome(r) = NoError
                             THEN session_token
                             ELSE [session_token EXCEPT ![fg_self] = ""]
    /\ UNCHANGED <<login_status, alive_thread, logins, discarded, fg_self,
                   fg_op, ka_vars>>

call_aping_post ==
    /\ fg_pc = "l43"
    /\ \E r \in ApingResponses :
         /\ fg_resp' = r
         /\ fg_return(call_aping_outcome(r))
    /\ UNCHANGED <<session_vars, logins, discarded, fg_self, fg_op, ka_vars>>

(***************************************************************************)
(* The caller is done with the session object: main() returns and its      *)
(* local goes out of scope.  The class has no method to call here, and     *)
(* nothing is done to the threads login started.                           *)
(***************************************************************************)
discard(m) ==
    /\ fg_pc = "idle"
    /\ ~discarded[m]
    /\ discarded' = [discarded EXCEPT ![m] = TRUE]
    /\ UNCHANGED <<session_vars, logins, fg_vars, ka_vars>>

Next ==
    \/ \E m \in Live, u \in Usernames, p \in Passwords : login(m, u, p)
    \/ login_post
    \/ login_set_status
    \/ login_set_token
    \/ login_start_thread
    \/ \E m \in Live : keep_alive(m)
    \/ keep_alive_post
    \/ \E m \in Live : call_aping(m)
    \/ call_aping_post
    \/ \E m \in Live : discard(m)
    \/ \E m \in Live, i \in Threads : ka_headers(m, i)
    \/ \E m \in Live, i \in Threads : ka_post(m, i)
    \/ \E m \in Live, i \in Threads : ka_sleep(m, i)

Spec == Init /\ [][Next]_vars

\* The interpreter keeps scheduling every thread that can run: a keep-alive
\* thread that can take a step eventually takes one, and a call the
\* foreground has begun runs to its end.  Nothing obliges the caller to make
\* another call.
fg_finish ==
    \/ login_post \/ login_set_status \/ login_set_token \/ login_start_thread
    \/ keep_alive_post \/ call_aping_post

FairSpec ==
    /\ Spec
    /\ WF_vars(fg_finish)
    /\ \A m \in Live, i \in Threads : WF_vars(ka_step(m, i))

(***************************************************************************)
(* main() with both its session objects in use: the calls of the           *)
(* foreground thread go to either object and each object has its own       *)
(* keep-alive thread.  As in main(), login is called once on each object   *)
(* (lines 172 and 177).                                                    *)
(***************************************************************************)
NextTwo ==
    \/ \E m \in Sessions, u \in Usernames, p \in Passwords :
           logins[m] = 0 /\ login(m, u, p)
    \/ login_post
    \/ login_set_status
    \/ login_set_token
    \/ login_start_thread
    \/ \E m \in Sessions : keep_alive(m)
    \/ keep_alive_post
    \/ \E m \in Sessions : call_aping(m)
    \/ call_aping_post
    \/ \E m \in Sessions, i \in Threads : ka_headers(m, i)
    \/ \E m \in Sessions, i \in Threads : ka_post(m, i)
    \/ \E m \in Sessions, i \in Threads : ka_sleep(m, i)

SpecTwo == Init /\ [][NextTwo]_vars


(***************************************************************************)
(* The keep-alive loop on its own: the caller only logs in, and the        *)
(* threads its logins start run under the same scheduling as in FairSpec.  *)
(***************************************************************************)
NextLoop ==
    \/ \E m \in Live, u \in Usernames, p \in Passwords : login(m, u, p)
    \/ login_post
    \/ login_set_status
    \/ login_set_token
    \/ login_start_thread
    \/ \E m \in Live, i \in Threads : ka_headers(m, i)
    \/ \E m \in Live, i \in Threads : ka_post(m, i)
    \/ \E m \in Live, i \in Threads : ka_sleep(m, i)

FairLoopSpec ==
    /\ Init /\ [][NextLoop]_vars
    /\ WF_vars(fg_finish)
    /\ \A m \in Live, i \in Threads : WF_vars(ka_step(m, i))

(***************************************************************************)
(* The claims                                                              *)
(***************************************************************************)
\* An HTTP 200 response whose body parses as JSON.
Http200(r) == r.kind = "http" /\ r.code = 200 /\ r.json
LoginSuccess(r) ==
    Http200(r) /\ r.loginStatus = "SUCCESS" /\ r.sessionToken # Absent
LoginEnded == fg_pc = "idle" /\ fg_op = "login"

\* C1: a login whose response is HTTP 200 with loginStatus SUCCESS ends
\* without an exception, the session holding exactly the sessionToken and
\* the loginStatus of that response, and a keep-alive thread started.
C1_LoginSuccessStoresResponse ==
    (LoginEnded /\ LoginSuccess(fg_resp)) =>
        /\ fg_err = NoError
        /\ session_token[fg_self] = fg_resp.sessionToken
        /\ login_status[fg_self] = fg_resp.loginStatus
        /\ alive_thread[fg_self] # 0

\* The first login of a fresh session got {SUCCESS, abc123} and has returned.
C1_Witness ==
    /\ LoginEnded
    /\ logins["session"] = 1
    /\ fg_resp = LoginResp(200, "SUCCESS", "abc123")
    /\ fg_err = NoError
    /\ session_token["session"] = "abc123"
    /\ login_status["session"] = "SUCCESS"

\* C2: at most one keep-alive thread is running per session, in every
\* reachable state (two successful logins leave exactly one).
C2_AtMostOneKeepAlive ==
    \A m \in Sessions : Cardinality(Running(m)) <= 1

\* C3: a failing probe (HTTP 200, status FAIL) does not end the keep-alive
\* thread that issued it: the thread is still in its loop afterwards.
C3_FailedProbeKeepsLoop ==
    \A m \in Sessions, i \in Threads :
        (Http200(ka_resp[m][i]) /\ ka_resp[m][i].status = "FAIL")
            => ka_pc[m][i] # "dead"

InvalidCredentials(r) ==
    Http200(r) /\ r.loginStatus = "INVALID_USERNAME_OR_PASSWORD"
AuthInvalid == BetfairException("login:loginStatus", "INVALID_USERNAME_OR_PASSWORD")
C4_InvalidCredentialsStep ==
    (fg_pc = "l54" /\ InvalidCredentials(fg_resp'))
        => /\ fg_pc' = "idle"
           /\ fg_err' = AuthInvalid
           /\ UNCHANGED <<login_status, session_token, alive_thread, ka_pc>>
C4_FirstLoginStaysUnauthenticated ==
    (LoginEnded /\ InvalidCredentials(fg_resp) /\ logins[fg_self] = 1)
        => /\ fg_err = AuthInvalid
           /\ login_status[fg_self] = ""
           /\ session_token[fg_self] = ""
           /\ Started(fg_self) = {}
\* C4: the step of login that receives HTTP 200 with loginStatus
\* INVALID_USERNAME_OR_PASSWORD ends the call with the authentication error
\* and leaves status, token and threads as they were; so a session that was
\* Unauthenticated before its first login is Unauthenticated after it.
C4_InvalidCredentialsRejected ==
    /\ []C4_FirstLoginStaysUnauthenticated
    /\ [][C4_InvalidCredentialsStep]_vars

\* The first login of a fresh session was rejected for its credentials.
C4_Witness ==
    /\ LoginEnded
    /\ InvalidCredentials(fg_resp)
    /\ logins["session"] = 1
    /\ fg_err = AuthInvalid
    /\ login_status["session"] = ""
    /\ session_token["session"] = ""
    /\ Started("session") = {}

AuthUnknown == BetfairException("login", "Unknown error")
\* C5: a login whose response has an HTTP status other than 200 ends with
\* the exception ("login", "Unknown error"), whatever the body says and
\* whatever the session held before.
C5_Non200IsUnknownError ==
    (LoginEnded /\ fg_resp.kind = "http" /\ fg_resp.code # 200)
        => fg_err = AuthUnknown

\* An authenticated session logs in again and gets a 500 whose body says
\* SUCCESS.
C5_Witness ==
    /\ LoginEnded
    /\ fg_resp = LoginResp(500, "SUCCESS", "abc123")
    /\ fg_err = AuthUnknown
    /\ logins["session"] = 2
    /\ session_token["session"] = "xyz789"

C6_OnlySuccessAuthenticatesStep ==
    \A m \in Sessions :
        (\/ login_status'[m] # login_status[m]
         \/ session_token'[m] # session_token[m]
         \/ Started(m)' # Started(m))
            => (Http200(fg_resp) /\ fg_resp.loginStatus = "SUCCESS")
\* C6: login writes the status or the token, or starts a keep-alive thread,
\* only when its response is HTTP 200 with loginStatus SUCCESS.
C6_OnlySuccessAuthenticates == [][C6_OnlySuccessAuthenticatesStep]_vars

ProbeSucceeds(m) ==
    \/ \E i \in Threads : ka_pc[m][i] = "l87" /\ ka_pc'[m][i] = "l79"
    \/ fg_pc = "l87" /\ fg_self = m /\ fg_pc' = "idle" /\ fg_err' = NoError
C7_ProbeKeepsStateStep ==
    \A m \in Sessions :
        ProbeSucceeds(m) => /\ session_token'[m] = session_token[m]
                            /\ login_status'[m] = login_status[m]
\* C7: a step in which a probe succeeds (in a keep-alive thread or in a
\* direct call of keep_alive) leaves the session's token and status as they
\* were.
C7_ProbeKeepsState == [][C7_ProbeKeepsStateStep]_vars

\* After one login, its thread has had MaxProbes successful probes and the
\* session still holds what that login stored.
C7_Witness ==
    /\ logins["session"] = 1
    /\ ka_pc["session"][1] = "l79"
    /\ ka_probes["session"][1] = MaxProbes
    /\ session_token["session"] = "abc123"
    /\ login_status["session"] = "SUCCESS"

SessionUnknown == BetfairException("keepAlive", "Unknown error")
KaExpected(r, e) ==
    IF r.code # 200 THEN e = SessionUnknown
    ELSE IF r.status = "FAIL" \/ r.error # ""
         THEN e.type = "BetfairException" /\ e # SessionUnknown
         ELSE e = NoError
\* C8: what keep_alive does is decided by the response: not 200, the session
\* error ("keepAlive", "Unknown error"); 200 with status FAIL or a non-empty
\* error, a session error; 200 otherwise, no error.
C8_KeepAliveOutcome ==
    /\ (fg_pc = "idle" /\ fg_op = "keep_alive" /\ fg_resp.kind = "http")
           => KaExpected(fg_resp, fg_err)
    /\ \A m \in Sessions, i \in Threads :
           ka_resp[m][i].kind = "http"
               => /\ KaExpected(ka_resp[m][i], ka_err[m][i])
                  /\ (ka_pc[m][i] = "dead") = (ka_err[m][i] # NoError)

\* A direct call failed on the error field alone while a thread's probe
\* succeeded.
C8_Witness ==
    /\ fg_pc = "idle" /\ fg_op = "keep_alive"
    /\ fg_resp = KaResp(200, "SUCCESS", "INPUT_ERROR")
    /\ fg_err = BetfairException("keepAlive:error", "INPUT_ERROR")
    /\ \E i \in Threads :
           /\ ka_resp["session"][i] = KaResp(200, "SUCCESS", "")
           /\ ka_pc["session"][i] = "l79"

C9_NoTornReadStep ==
    \A m \in Sessions, i \in Threads :
        (ka_pc[m][i] = "l77" /\ ka_pc'[m][i] = "l87")
            => ~(/\ fg_pc = "l62"
                 /\ fg_self = m
                 /\ fg_resp.sessionToken # session_token[m])
\* C9: no keep-alive thread builds its headers (line 86) while a login of
\* the same session has stored the new status (line 61) and not yet the new
\* token (line 62).
C9_NoTornRead == [][C9_NoTornReadStep]_vars

\* C10: once the session object is discarded, its keep-alive threads
\* eventually all stop.
C10_DiscardStopsKeepAlive ==
    \A m \in Live : discarded[m] ~> (Running(m) = {})

\* What belongs to session m: its fields, its login count and its threads.
SessState(m) ==
    <<login_status[m], session_token[m], alive_thread[m], logins[m],
      ka_pc[m], ka_hdr[m], ka_resp[m], ka_err[m], ka_probes[m]>>
\* A step of a call made on m, or of one of m's keep-alive threads.
StepOf(m) ==
    \/ fg_vars' # fg_vars /\ fg_self' = m
    \/ ka_pc'[m] # ka_pc[m]
C11_IndependentStep ==
    /\ \A a \in Sessions : StepOf(a) =>
           \A b \in Sessions \ {a} : SessState(b)' = SessState(b)
    /\ \A m \in Sessions, i \in Threads :
           (ka_pc[m][i] = "l77" /\ ka_pc'[m][i] = "l87")
               => ka_hdr'[m][i] = session_token[m]
    /\ (fg_pc = "idle" /\ fg_pc' \in {"l87", "l43"})
           => fg_hdr' = session_token[fg_self']
\* C11: two session objects are independent: a step of a call on one, or of
\* one's keep-alive thread, leaves the token, status, thread handle and
\* threads of the other unchanged, and every request built for a session
\* carries that session's own token.
C11_SessionsIndependent == [][C11_IndependentStep]_vars

\* Both objects are logged in with different tokens; a call on session is
\* in flight with session's token while session2's thread is about to probe
\* with session2's.
C11_Witness ==
    /\ session_token["session"] = "abc123"
    /\ session_token["session2"] = "xyz789"
    /\ fg_self = "session" /\ fg_pc = "l43" /\ fg_hdr = "abc123"
    /\ ka_pc["session2"][1] = "l87" /\ ka_hdr["session2"][1] = "xyz789"
    /\ ka_pc["session"][1] = "l79"

\* C12: a login that ends with an error leaves the status and the token as
\* they were before the call and starts no thread; stated for the first
\* login of a session, where "before the call" is what __init__ set.
C12_FailedLoginChangesNothing ==
    (LoginEnded /\ fg_err # NoError /\ logins[fg_self] = 1)
        => /\ login_status[fg_self] = ""
           /\ session_token[fg_self] = ""
           /\ Started(fg_self) = {}

\* A step of a get_* method: __call_aping building its headers or posting.
ApiStep == fg_op' = "call_aping" /\ fg_vars' # fg_vars
C13_ApiCallStep ==
    ApiStep => /\ UNCHANGED <<login_status, session_token, alive_thread, ka_vars>>
               /\ (fg_pc' = "l43" => fg_hdr' = session_token[fg_self'])
\* C13: an API call (every get_* method goes through __call_aping) reads
\* the token for its X-Authentication header and leaves the token, the
\* status and the keep-alive threads unchanged, whatever the response.
C13_ApiCallOnlyReads == [][C13_ApiCallStep]_vars

\* An API call on an authenticated session failed on a body that is not
\* JSON; the session holds what login stored and its thread is running.
C13_Witness ==
    /\ fg_pc = "idle" /\ fg_op = "call_aping"
    /\ fg_resp = NotJson(200) /\ fg_err = ValueError
    /\ logins["session"] = 1
    /\ session_token["session"] = "abc123"
    /\ login_status["session"] = "SUCCESS"
    /\ ka_pc["session"][1] = "l79"

\* After a login that raised, login can be called again on the same object.
C14_CallableAfterFailure ==
    (LoginEnded /\ fg_err # NoError /\ ~discarded[fg_self]
        /\ logins[fg_self] < MaxLogins)
        => ENABLED (\E u \in Usernames, p \in Passwords : login(fg_self, u, p))
\* A login answered 200/SUCCESS after an earlier login of the object failed
\* (fewer threads started than logins made) has stored the response's token
\* and status and holds the handle of the thread it started.
C14_SuccessAfterFailure ==
    (LoginEnded /\ LoginSuccess(fg_resp)
        /\ Cardinality(Started(fg_self)) < logins[fg_self])
        => /\ fg_err = NoError
           /\ session_token[fg_self] = fg_resp.sessionToken
           /\ login_status[fg_self] = fg_resp.loginStatus
           /\ alive_thread[fg_self] = Cardinality(Started(fg_self))
           /\ alive_thread[fg_self] # 0
\* The thread a login starts is in its loop when the login returns.
C14_ThreadRunsStep ==
    (fg_pc = "l71" /\ fg_pc' = "idle")
        => ka_pc'[fg_self][alive_thread'[fg_self]] = "l77"
\* C14: a failed login is never absorbing: login stays callable after it,
\* and a later login answered HTTP 200 with SUCCESS leaves the session with
\* that response's token and status and a keep-alive thread running.
C14_LoginAfterFailure ==
    /\ []C14_CallableAfterFailure
    /\ []C14_SuccessAfterFailure
    /\ [][C14_ThreadRunsStep]_vars

\* The first login failed, the second was answered {SUCCESS, xyz789}: the
\* session is authenticated and its only thread is the one just started.
C14_Witness ==
    /\ LoginEnded
    /\ logins["session"] = 2
    /\ fg_resp = LoginResp(200, "SUCCESS", "xyz789")
    /\ Started("session") = {1}
    /\ ka_pc["session"][1] = "l77"
    /\ session_token["session"] = "xyz789"
    /\ login_status["session"] = "SUCCESS"

\* requests.post has come back (with a response or by raising) in the
\* foreground call, and in thread i of session m.
FgPosted == fg_resp' # fg_resp /\ fg_resp'.kind # "none"
KaPosted(m, i) == ka_resp'[m][i] # ka_resp[m][i] /\ ka_resp'[m][i].kind # "none"
C15_OnePostStep ==
    \* a call posts only while it has not posted yet, and does not end before
    /\ FgPosted => fg_resp = NoResp
    /\ (fg_pc # "idle" /\ fg_pc' = "idle") => fg_resp' # NoResp
    \* a transport failure ends the call with the exception
    /\ (FgPosted /\ fg_resp'.kind = "neterr")
           => (fg_pc' = "idle" /\ fg_err' = ConnectionError)
    \* an error status ends login and keep_alive with their exception
    /\ (FgPosted /\ fg_resp'.kind = "http" /\ fg_resp'.code # 200
            /\ fg_op \in {"login", "keep_alive"})
           => (fg_pc' = "idle" /\ fg_err'.type = "BetfairException")
    \* the same for each invocation of keep_alive by a thread
    /\ \A m \in Sessions, i \in Threads :
           /\ KaPosted(m, i) => ka_resp[m][i] = NoResp
           /\ (ka_pc[m][i] = "l87" /\ ka_pc'[m][i] # "l87")
                  => ka_resp'[m][i] # NoResp
           /\ (KaPosted(m, i) /\ ka_resp'[m][i].kind = "neterr")
                  => (ka_pc'[m][i] = "dead" /\ ka_err'[m][i] = ConnectionError)
\* C15: nothing retries: every invocation of login, keep_alive and an API
\* call issues exactly one POST, and a failure of it (error status or
\* transport failure) ends the invocation with the exception.
C15_NoRetry == [][C15_OnePostStep]_vars

\* A second login failed in transport after the first one's thread had died
\* of a transport failure of its own.
C15_Witness ==
    /\ LoginEnded
    /\ logins["session"] = 2
    /\ fg_resp = NetErr /\ fg_err = ConnectionError
    /\ ka_pc["session"][1] = "dead"
    /\ ka_resp["session"][1] = NetErr
    /\ ka_err["session"][1] = ConnectionError

\* The tokens of the responses that report a successful login.
SuccessTokens == {r.sessionToken : r \in {x \in LoginResponses : LoginSuccess(x)}}
\* C16: every probe a keep-alive thread sends carries a token that a
\* successful login stored, never the empty token the object starts with.
C16_ProbeCarriesLoginToken ==
    \A m \in Sessions, i \in Threads :
        ka_pc[m][i] = "l87" => ka_hdr[m][i] \in SuccessTokens

\* The order of a thread's steps: started at the call of keep_alive, then
\* a probe, then (the probe having succeeded) a sleep, then the next call.
C17_LoopStep ==
    \A m \in Sessions, i \in Threads :
        /\ ka_pc'[m][i] # ka_pc[m][i] =>
               \/ ka_pc[m][i] = "none" /\ ka_pc'[m][i] = "l77"
                                       /\ ka_probes[m][i] = 0
               \/ ka_pc[m][i] = "l77" /\ ka_pc'[m][i] = "l87"
               \/ ka_pc[m][i] = "l87" /\ ka_pc'[m][i] \in {"l79", "dead"}
               \/ ka_pc[m][i] = "l79" /\ ka_pc'[m][i] = "l77"
        /\ ka_probes'[m][i] # ka_probes[m][i] => ka_pc[m][i] = "l87"
        /\ (ka_pc[m][i] = "l87" /\ ka_pc'[m][i] = "l79")
               => ka_err'[m][i] = NoError
\* No thread sleeps before its first probe.
C17_ProbeBeforeSleep ==
    \A m \in Sessions, i \in Threads :
        ka_pc[m][i] = "l79" => ka_probes[m][i] >= 1
\* A thread that was started and whose probes never fail probes, and
\* sleeps, again and again.
C17_ProbesForever ==
    \A m \in Live, i \in Threads :
        (<>(ka_pc[m][i] # "none") /\ [](ka_pc[m][i] # "dead"))
            => ([]<>(ka_pc[m][i] = "l87") /\ []<>(ka_pc[m][i] = "l79"))
\* C17: a keep-alive thread alternates probe and sleep, beginning with a
\* probe: its first probe comes before any sleep, between two consecutive
\* probes there is exactly one sleep, and with the threads scheduled fairly
\* and every probe succeeding it probes infinitely often.
C17_ProbeSleepAlternate ==
    /\ [][C17_LoopStep]_vars
    /\ []C17_ProbeBeforeSleep
    /\ C17_ProbesForever

\* A thread is at its probe again, having probed MaxProbes times and slept
\* after each.
C17_Witness ==
    /\ ka_pc["session"][1] = "l87"
    /\ ka_probes["session"][1] = MaxProbes
    /\ ka_err["session"][1] = NoError

====
